---------------------------- MODULE Spec2Model ----------------------------
(***************************************************************************)
(* AEMET temperature track: the kernel's year download and normalisation   *)
(* (get_current_data, download_year_data), the historical aggregation      *)
(* (post_process_data), the record comparison (get_new_record) and the     *)
(* setup update (update_setup); the rebuild script download_data.py and    *)
(* the aggregation and current-year loop of aemet3_main.py.                *)
(*                                                                         *)
(* Readings are decimal numbers with one decimal; the model keeps them as  *)
(* integers in tenths of a unit (23.4 is 234).  A Python value that is     *)
(* either a float or None is a sequence of length at most one: <<>> is     *)
(* None, <<234>> is 23.4.  A string is the sequence of its characters.     *)
(***************************************************************************)
EXTENDS Integers, Sequences, FiniteSets, TLC

VARIABLES
    op,          \* the entry point of the run
    pc,          \* "start" before the call, "done" after it
    remote,      \* what the remote source holds for the requested year
    disk,        \* the history file and whether the summary file is writable
    firstPart,   \* download_year_data: first_part as get_current_data returned it
    secondPart,  \* download_year_data: second_part
    result,      \* the outcome of download_year_data
    summary,     \* the outcome of post_process_data; get_new_record's in_summary
    current,     \* get_new_record's in_current
    newRecord,   \* the outcome of get_new_record
    log,         \* the requests sent and the sleeps taken, in order
    source,      \* download_data.py: what the remote source answers for each year
    year,        \* download_data.py: the year the main loop is at
    data_clean,  \* download_data.py: the records collected so far
    output_file, \* download_data.py: the output file, None until it is written
    means,       \* aemet3_main.py: the outcome of calculate_mean_values
    answer,      \* what the remote source answers for one whole year
    byPosition,  \* the year's series with the leap day removed by raw position
    byDate,      \* the year's series with the leap day removed by date
    current_record,  \* aemet3_main.py: the series of the current year
    heap,        \* update_setup: the dict objects, by reference
    in_json,     \* update_setup: the reference of the dict the caller passes
    setup_file,  \* update_setup: the content of the setup file
    calls        \* update_setup: the calls made so far

kernelVars == <<remote, disk, firstPart, secondPart, result, summary, current,
                newRecord>>

yearVars == <<answer, byPosition, byDate, current_record>>

scriptVars == <<source, year, data_clean, output_file, means, yearVars>>

setupVars == <<heap, in_json, setup_file, calls>>

vars == <<op, pc, log, kernelVars, scriptVars, setupVars>>

-----------------------------------------------------------------------------
(* Python values *)

None == <<>>

Some(v) == <<v>>

IsNone(x) == x = <<>>

Quantities == <<"tmax", "tmed", "tmin", "prec">>

QuantitySet == {"tmax", "tmed", "tmin", "prec"}

(* A JSON value of a day-entry: a string or null. *)
JStr(chars) == [t |-> "str", s |-> chars]

JNull == [t |-> "null", s |-> <<>>]

-----------------------------------------------------------------------------
(* Characters, integers and floats as Python converts them *)

DigitChars == <<"0", "1", "2", "3", "4", "5", "6", "7", "8", "9">>

IsDigit(c) == \E i \in 1..10 : DigitChars[i] = c

DigitVal(c) == (CHOOSE i \in 1..10 : DigitChars[i] = c) - 1

(* str.replace(',', '.') *)
ReplaceComma(s) == [i \in 1..Len(s) |-> IF s[i] = "," THEN "." ELSE s[i]]

(* The value of a run of digits. *)
RECURSIVE DigitsVal(_)
DigitsVal(s) ==
    IF s = <<>> THEN 0
    ELSE 10 * DigitsVal(SubSeq(s, 1, Len(s) - 1)) + DigitVal(s[Len(s)])

AllDigits(s) == \A i \in 1..Len(s) : IsDigit(s[i])

(* int(s) of the date parts: a non-empty run of digits ("02" is 2). *)
PyInt(s) == DigitsVal(s)

(* str.split('-') *)
RECURSIVE SplitDash(_)
SplitDash(s) ==
    IF \A i \in 1..Len(s) : s[i] # "-" THEN <<s>>
    ELSE LET k == CHOOSE i \in 1..Len(s) :
                      s[i] = "-" /\ \A j \in 1..(i - 1) : s[j] # "-"
         IN  <<SubSeq(s, 1, k - 1)>> \o SplitDash(SubSeq(s, k + 1, Len(s)))

(* float(s): an optional sign, digits with at most one point and at least  *)
(* one digit.  Anything else is a ValueError, returned here as None.  The  *)
(* value is in tenths; the source's readings carry at most one decimal.    *)
Unsigned(s) == IF s # <<>> /\ s[1] \in {"-", "+"} THEN SubSeq(s, 2, Len(s)) ELSE s

PointPos(s) == IF \E i \in 1..Len(s) : s[i] = "."
               THEN CHOOSE i \in 1..Len(s) : s[i] = "." /\ \A j \in 1..(i - 1) : s[j] # "."
               ELSE Len(s) + 1

IntPart(s) == SubSeq(s, 1, PointPos(s) - 1)

FracPart(s) == SubSeq(s, PointPos(s) + 1, Len(s))

IsFloatLiteral(ip, fp) ==
    /\ AllDigits(ip)
    /\ AllDigits(fp)
    /\ Len(ip) + Len(fp) >= 1

PyFloat(s) ==
    LET u   == Unsigned(s)
        ip  == IntPart(u)
        fp  == FracPart(u)
        mag == 10 * DigitsVal(ip) + (IF fp = <<>> THEN 0 ELSE DigitVal(fp[1]))
    IN  IF ~IsFloatLiteral(ip, fp) THEN None
        ELSE IF s[1] = "-" THEN Some(0 - mag) ELSE Some(mag)


-----------------------------------------------------------------------------
(* The remote source: the calendar and the day-entries it serves *)

IsLeap(y) == (y % 4 = 0 /\ y % 100 # 0) \/ y % 400 = 0

MonthLen(y, m) ==
    IF m = 2 THEN (IF IsLeap(y) THEN 29 ELSE 28)
    ELSE IF m \in {4, 6, 9, 11} THEN 30 ELSE 31

(* The dates <<month, day>> of the months from..to, in calendar order. *)
RECURSIVE MonthsDates(_, _, _)
MonthsDates(y, from, to) ==
    IF from > to THEN <<>>
    ELSE [d \in 1..MonthLen(y, from) |-> <<from, d>>] \o MonthsDates(y, from + 1, to)

RECURSIVE NatChars(_)
NatChars(n) ==
    IF n < 10 THEN <<DigitChars[n + 1]>>
    ELSE NatChars(n \div 10) \o <<DigitChars[(n % 10) + 1]>>

TwoChars(n) == <<DigitChars[(n \div 10) + 1], DigitChars[(n % 10) + 1]>>

(* "YYYY-MM-DD" *)
FormatDate(y, m, d) == NatChars(y) \o <<"-">> \o TwoChars(m) \o <<"-">> \o TwoChars(d)

(* A reading in tenths as the source writes it: "23,4", "-1,6". *)
FormatReading(t) ==
    LET a == IF t < 0 THEN 0 - t ELSE t
    IN  (IF t < 0 THEN <<"-">> ELSE <<>>) \o NatChars(a \div 10) \o <<",">>
        \o <<DigitChars[(a % 10) + 1]>>

(* The reading of quantity q measured on a date; distinct dates have       *)
(* distinct temperatures, minimum temperatures go below zero.              *)
Reading(q, m, d) ==
    LET base == 31 * m + d
    IN  CASE q = "tmax" -> base + 100
          [] q = "tmed" -> base
          [] q = "tmin" -> base - 200
          [] q = "prec" -> base % 7

(* One field of one day-entry may be defective. *)
NoDefect == [date |-> <<0, 0>>, q |-> "none", kind |-> "none"]

DefectKinds == {"empty", "text", "null", "missing", "point"}

DefectDates == {<<1, 1>>, <<2, 29>>, <<3, 1>>, <<7, 1>>, <<12, 31>>}

Defects == [date : DefectDates, q : QuantitySet, kind : DefectKinds]

(* A date the source may leave out of its answer. *)
NoOmit == <<0, 0>>

OmitDates == {<<1, 15>>, <<2, 29>>, <<3, 1>>, <<9, 9>>}

FieldValue(q, m, d, defect) ==
    IF defect.date = <<m, d>> /\ defect.q = q
    THEN CASE defect.kind = "empty" -> JStr(<<>>)
           [] defect.kind = "text"  -> JStr(<<"I", "p">>)
           [] defect.kind = "null"  -> JNull
           [] defect.kind = "point" -> JStr(ReplaceComma(FormatReading(Reading(q, m, d))))
           [] OTHER -> JNull
    ELSE JStr(FormatReading(Reading(q, m, d)))

EntryFields(m, d, defect) ==
    IF defect.date = <<m, d>> /\ defect.kind = "missing"
    THEN ({"fecha"} \cup QuantitySet) \ {defect.q}
    ELSE {"fecha"} \cup QuantitySet

Entry(y, m, d, defect) ==
    [f \in EntryFields(m, d, defect) |->
        IF f = "fecha" THEN JStr(FormatDate(y, m, d)) ELSE FieldValue(f, m, d, defect)]

(* The day-entries the source serves for the months from..to of year y. *)
Entries(y, from, to, defect, omit) ==
    LET dates == SelectSeq(MonthsDates(y, from, to), LAMBDA md : md # omit)
    IN  [k \in 1..Len(dates) |-> Entry(y, dates[k][1], dates[k][2], defect)]

(* The answer to a request: the descriptor get_data_from_url returns for   *)
(* the query url and the list it returns for the descriptor's data url.    *)
DescKinds == {"ok", "nodata", "none", "descripcion", "description"}

Descriptor(kind) ==
    CASE kind = "none"        -> None
      [] kind = "descripcion" -> Some([estado |-> 404, descripcion |-> "No hay datos"])
      [] kind = "description" -> Some([estado |-> 404, description |-> "No data"])
      [] OTHER                -> Some([estado |-> 200, datos |-> "url"])

Response(y, from, to, scn, kind) ==
    [desc |-> Descriptor(kind),
     data |-> IF kind = "nodata" THEN None
              ELSE Some(Entries(y, from, to, scn.defect, scn.omit))]

Years == {2019, 2020}

Scn(y, def, om, d1, d2) ==
    [year |-> y, defect |-> def, omit |-> om, desc1 |-> d1, desc2 |-> d2]

Scenarios ==
    {Scn(y, def, NoOmit, "ok", "ok") : y \in Years, def \in Defects \cup {NoDefect}}
    \cup {Scn(y, NoDefect, om, "ok", "ok") : y \in Years, om \in OmitDates}
    \cup {Scn(y, NoDefect, NoOmit, d1, d2) : y \in Years, d1 \in DescKinds, d2 \in DescKinds}

Remote(scn) ==
    [year   |-> scn.year,
     first  |-> Response(scn.year, 1, 6, scn, scn.desc1),
     second |-> Response(scn.year, 7, 12, scn, scn.desc2)]

-----------------------------------------------------------------------------
(* get_current_data *)

Raise(exc) == [kind |-> "raise", exc |-> exc]

(* [int(current_date[1]), int(current_date[2])] of item['fecha'] *)
MonthDay(item) ==
    LET current_date == SplitDash(item["fecha"].s)
    IN  <<PyInt(current_date[2]), PyInt(current_date[3])>>

(* item[q].replace(',', '.') escapes the try/except ValueError with a      *)
(* KeyError when the entry has no field q and with an AttributeError when  *)
(* the field is null.                                                      *)
FieldRaises(item, q) == q \notin DOMAIN item \/ item[q].t # "str"

FieldException(item, q) == IF q \notin DOMAIN item THEN "KeyError" ELSE "AttributeError"

(* float(item[q].replace(',', '.')), None on ValueError *)
FieldValueOf(item, q) == PyFloat(ReplaceComma(item[q].s))

ItemRaises(item) == \E q \in QuantitySet : FieldRaises(item, q)

ItemException(item) ==
    LET k == CHOOSE i \in 1..4 :
                 /\ FieldRaises(item, Quantities[i])
                 /\ \A j \in 1..(i - 1) : ~FieldRaises(item, Quantities[j])
    IN  FieldException(item, Quantities[k])

(* Variant: no entry is skipped. *)
KeptItems_All(items) == items

(* Variant: the entry at raw index 59 is skipped, whatever its date. *)
KeptItems_ByPosition(items) ==
    IF Len(items) < 60 THEN items
    ELSE SubSeq(items, 1, 59) \o SubSeq(items, 61, Len(items))

(* The entries the loop appends from: all but those dated February 29. *)
KeptItems(items) == SelectSeq(items, LAMBDA item : MonthDay(item) # <<2, 29>>)

GetCurrentData(data_json, in_year) ==
    IF IsNone(data_json) THEN Raise("TypeError")
    ELSE
    LET items     == data_json[1]
        leap_year == Len(items) = 366
        complete  == ~(Len(items) < 365)
        kept      == KeptItems(items)
        Series(q) == [k \in 1..Len(kept) |-> FieldValueOf(kept[k], q)]
    IN  IF \E k \in 1..Len(kept) : ItemRaises(kept[k])
        THEN LET bad == CHOOSE k \in 1..Len(kept) :
                            ItemRaises(kept[k]) /\ \A j \in 1..(k - 1) : ~ItemRaises(kept[j])
             IN  Raise(ItemException(kept[bad]))
        ELSE [kind |-> "record", exc |-> "",
              year |-> in_year, completeYear |-> complete, leapYear |-> leap_year,
              tmax |-> Series("tmax"), tmed |-> Series("tmed"),
              tmin |-> Series("tmin"), prec |-> Series("prec")]

-----------------------------------------------------------------------------
(* download_year_data *)

NotCalled == [kind |-> "notcalled", exc |-> ""]

ReturnFalse == [kind |-> "false", exc |-> ""]

(* the test: data_url is not None and its 'estado' is 200 *)
DescriptorOk(data_url) ==
    /\ ~IsNone(data_url)
    /\ "estado" \in DOMAIN data_url[1]
    /\ data_url[1]["estado"] = 200

(* The else branch: print(data_url['description']) and return False. *)
DescriptorFailure(data_url) ==
    IF IsNone(data_url) THEN Raise("TypeError")
    ELSE IF "description" \notin DOMAIN data_url[1] THEN Raise("KeyError")
    ELSE ReturnFalse

(* Variant: the second half-year is placed before the first. *)
JoinHalves_SecondFirst(first_part, second_part) ==
    [first_part EXCEPT !.tmax = second_part.tmax \o first_part.tmax,
                       !.tmed = second_part.tmed \o first_part.tmed,
                       !.tmin = second_part.tmin \o first_part.tmin,
                       !.prec = second_part.prec \o first_part.prec]

(* first_part[q] = first_part[q] + second_part[q] for the four quantities; *)
(* year, completeYear and leapYear stay those of the first half.           *)
JoinHalves(first_part, second_part) ==
    [first_part EXCEPT !.tmax = first_part.tmax \o second_part.tmax,
                       !.tmed = first_part.tmed \o second_part.tmed,
                       !.tmin = first_part.tmin \o second_part.tmin,
                       !.prec = first_part.prec \o second_part.prec]

(* sleep(1): the seconds a sleep lasts. *)
SleepSeconds == 1

(* get_current_data sends its request and sleeps one second, whatever the  *)
(* answer.                                                                 *)
GetCurrentDataLog == <<"request", "sleep">>

(* The frame of one call: first_part and second_part as get_current_data   *)
(* returned them (NotCalled when the call was not reached), the outcome    *)
(* ret of download_year_data, and the requests and sleeps of the call.     *)
DownloadYearData(rem) ==
    LET first_part  == IF DescriptorOk(rem.first.desc)
                       THEN GetCurrentData(rem.first.data, rem.year)
                       ELSE NotCalled
        second_part == IF first_part.kind = "record" /\ DescriptorOk(rem.second.desc)
                       THEN GetCurrentData(rem.second.data, rem.year)
                       ELSE NotCalled
        ret == IF ~DescriptorOk(rem.first.desc) THEN DescriptorFailure(rem.first.desc)
               ELSE IF first_part.kind = "raise" THEN first_part
               ELSE IF ~DescriptorOk(rem.second.desc) THEN DescriptorFailure(rem.second.desc)
               ELSE IF second_part.kind = "raise" THEN second_part
               ELSE JoinHalves(first_part, second_part)
        requests == <<"request">>
                    \o (IF first_part.kind = "notcalled" THEN <<>> ELSE GetCurrentDataLog)
                    \o (IF first_part.kind = "record" THEN <<"request">> ELSE <<>>)
                    \o (IF second_part.kind = "notcalled" THEN <<>> ELSE GetCurrentDataLog)
    IN  [first_part |-> first_part, second_part |-> second_part, ret |-> ret,
         log |-> requests]

-----------------------------------------------------------------------------
(* IEEE 754 binary64, the arithmetic of numpy's float64 arrays.            *)
(*                                                                         *)
(* A natural number of any size is the little-endian sequence of its       *)
(* digits in base 2^15, without leading zero digits (zero is <<>>).  A     *)
(* finite double is neg, m, e with value (-1)^neg * m * 2^e, where m is a  *)
(* natural number of exactly 53 bits, or zero with e = 0.  The readings    *)
(* and their sums and means stay far from the overflow and subnormal       *)
(* ranges, which are not modelled.                                         *)

RECURSIVE Pow2(_)
Pow2(k) == IF k = 0 THEN 1 ELSE 2 * Pow2(k - 1)

BigBase == Pow2(15)

RECURSIVE BigTrim(_)
BigTrim(a) ==
    IF a # <<>> /\ a[Len(a)] = 0 THEN BigTrim(SubSeq(a, 1, Len(a) - 1)) ELSE a

RECURSIVE BigFromNat(_)
BigFromNat(n) == IF n = 0 THEN <<>> ELSE <<n % BigBase>> \o BigFromNat(n \div BigBase)

BigDigit(a, i) == IF i <= Len(a) THEN a[i] ELSE 0

RECURSIVE BigAddFrom(_, _, _, _)
BigAddFrom(a, b, i, carry) ==
    IF i > Len(a) /\ i > Len(b)
    THEN (IF carry = 0 THEN <<>> ELSE <<carry>>)
    ELSE LET t == BigDigit(a, i) + BigDigit(b, i) + carry
         IN  <<t % BigBase>> \o BigAddFrom(a, b, i + 1, t \div BigBase)

BigAdd(a, b) == BigAddFrom(a, b, 1, 0)

(* a - b for a >= b *)
RECURSIVE BigSubFrom(_, _, _, _)
BigSubFrom(a, b, i, borrow) ==
    IF i > Len(a) THEN <<>>
    ELSE LET t == BigDigit(a, i) - BigDigit(b, i) - borrow
         IN  IF t < 0 THEN <<t + BigBase>> \o BigSubFrom(a, b, i + 1, 1)
             ELSE <<t>> \o BigSubFrom(a, b, i + 1, 0)

BigSub(a, b) == BigTrim(BigSubFrom(a, b, 1, 0))

RECURSIVE BigLessFrom(_, _, _)
BigLessFrom(a, b, i) ==
    IF i = 0 THEN FALSE
    ELSE IF a[i] # b[i] THEN a[i] < b[i]
    ELSE BigLessFrom(a, b, i - 1)

BigLess(a, b) ==
    IF Len(a) # Len(b) THEN Len(a) < Len(b) ELSE BigLessFrom(a, b, Len(a))

(* a * c for 0 < c < 2^15 *)
RECURSIVE BigMulFrom(_, _, _, _)
BigMulFrom(a, c, i, carry) ==
    IF i > Len(a) THEN (IF carry = 0 THEN <<>> ELSE <<carry>>)
    ELSE LET t == a[i] * c + carry
         IN  <<t % BigBase>> \o BigMulFrom(a, c, i + 1, t \div BigBase)

BigMulSmall(a, c) == BigMulFrom(a, c, 1, 0)

(* Quotient and remainder of a by d, 0 < d < 2^15: <<quotient digits from  *)
(* position i down, remainder>>.                                           *)
RECURSIVE BigDivFrom(_, _, _, _)
BigDivFrom(a, d, i, rem) ==
    IF i = 0 THEN [q |-> <<>>, r |-> rem]
    ELSE LET t    == rem * BigBase + a[i]
             rest == BigDivFrom(a, d, i - 1, t % d)
         IN  [q |-> rest.q \o <<t \div d>>, r |-> rest.r]

BigDivSmall(a, d) ==
    LET res == BigDivFrom(a, d, Len(a), 0)
    IN  [q |-> BigTrim(res.q), r |-> res.r]

BigShiftLeft(a, k) ==
    IF a = <<>> THEN <<>>
    ELSE [i \in 1..(k \div 15) |-> 0] \o BigMulSmall(a, Pow2(k % 15))

BigShiftRight(a, k) ==
    IF k \div 15 >= Len(a) THEN <<>>
    ELSE BigDivSmall(SubSeq(a, (k \div 15) + 1, Len(a)), Pow2(k % 15)).q

RECURSIVE BitLenNat(_)
BitLenNat(n) == IF n = 0 THEN 0 ELSE 1 + BitLenNat(n \div 2)

BigBitLen(a) == IF a = <<>> THEN 0 ELSE 15 * (Len(a) - 1) + BitLenNat(a[Len(a)])

BigIsOdd(a) == a # <<>> /\ a[1] % 2 = 1

F64Zero == [k |-> "num", neg |-> FALSE, m |-> <<>>, e |-> 0]

F64NaN == [k |-> "nan", neg |-> FALSE, m |-> <<>>, e |-> 0]

F64Inf(neg) == [k |-> "inf", neg |-> neg, m |-> <<>>, e |-> 0]

(* The double nearest to (-1)^neg * (n / d) * 2^e, ties to even; n is a    *)
(* natural number of any size and 0 < d < 2^15.                            *)
F64Round(neg, n, d, e) ==
    IF n = <<>> THEN F64Zero
    ELSE
    LET up    == IF BigBitLen(n) < 70 THEN 70 - BigBitLen(n) ELSE 0
        qr    == BigDivSmall(BigShiftLeft(n, up), d)
        drop  == BigBitLen(qr.q) - 53
        t     == BigShiftRight(qr.q, drop - 1)
        m0    == BigShiftRight(t, 1)
        sticky == qr.r # 0 \/ BigShiftLeft(t, drop - 1) # qr.q
        m1    == IF BigIsOdd(t) /\ (sticky \/ BigIsOdd(m0)) THEN BigAdd(m0, <<1>>) ELSE m0
    IN  IF BigBitLen(m1) = 54
        THEN [k |-> "num", neg |-> neg, m |-> BigShiftRight(m1, 1), e |-> e - up + drop + 1]
        ELSE [k |-> "num", neg |-> neg, m |-> m1, e |-> e - up + drop]

(* The double of a reading given in tenths: what float("23.4") returns. *)
F64FromTenths(t) == F64Round(t < 0, BigFromNat(IF t < 0 THEN 0 - t ELSE t), 10, 0)

(* numpy's float64 addition *)
F64Add(a, b) ==
    IF a.k # "num" \/ b.k # "num" THEN F64NaN
    ELSE IF a.m = <<>> THEN b
    ELSE IF b.m = <<>> THEN a
    ELSE
    LET e  == IF a.e < b.e THEN a.e ELSE b.e
        am == BigShiftLeft(a.m, a.e - e)
        bm == BigShiftLeft(b.m, b.e - e)
    IN  IF a.neg = b.neg THEN F64Round(a.neg, BigAdd(am, bm), 1, e)
        ELSE IF BigLess(am, bm) THEN F64Round(b.neg, BigSub(bm, am), 1, e)
        ELSE F64Round(a.neg, BigSub(am, bm), 1, e)

(* numpy's division of a float64 by an integer n >= 0 (a divider): 0/0 is  *)
(* nan and x/0 is an infinity, with a warning and no exception.            *)
F64DivNat(a, n) ==
    IF a.k # "num" THEN a
    ELSE IF n = 0 THEN (IF a.m = <<>> THEN F64NaN ELSE F64Inf(a.neg))
    ELSE F64Round(a.neg, a.m, n, a.e)

-----------------------------------------------------------------------------
(* The history file: the year records post_process_data reads *)

DaysInYear == 365

(* A series: the reading `base` on every day but the days of `at`. *)
SeriesOf(base, at) ==
    [i \in 1..DaysInYear |-> IF i \in DOMAIN at THEN at[i] ELSE Some(base)]

NoDays == [i \in {} |-> None]

(* The year records a history may hold.  Day index k of the source (from   *)
(* 0) is position k + 1 here.  2020 and 2021 are complete years of         *)
(* constant readings; the others miss days, carry readings with decimals   *)
(* and readings beyond -100 and 100.                                       *)
HistoryYears ==
    {[year |-> 2020, completeYear |-> FALSE, leapYear |-> FALSE,
      tmax |-> SeriesOf(100, NoDays), tmed |-> SeriesOf(50, NoDays),
      tmin |-> SeriesOf(0, NoDays),   prec |-> SeriesOf(0, NoDays)],
     [year |-> 2021, completeYear |-> FALSE, leapYear |-> FALSE,
      tmax |-> SeriesOf(200, NoDays), tmed |-> SeriesOf(150, NoDays),
      tmin |-> SeriesOf(100, NoDays), prec |-> SeriesOf(10, NoDays)],
     [year |-> 2022, completeYear |-> FALSE, leapYear |-> FALSE,
      tmax |-> SeriesOf(101, (6 :> Some(225)) @@ (8 :> Some(-1005)) @@ (11 :> None)),
      tmed |-> SeriesOf(51, (11 :> None)),
      tmin |-> SeriesOf(-37, (6 :> Some(-1005)) @@ (9 :> Some(1003))),
      prec |-> SeriesOf(1, (11 :> None))],
     [year |-> 2023, completeYear |-> FALSE, leapYear |-> FALSE,
      tmax |-> SeriesOf(202, (4 :> None) @@ (6 :> Some(150)) @@ (11 :> None)),
      tmed |-> SeriesOf(102, (4 :> None)),
      tmin |-> SeriesOf(-12, (4 :> None) @@ (6 :> Some(-33))),
      prec |-> SeriesOf(2, (4 :> None))],
     [year |-> 2024, completeYear |-> FALSE, leapYear |-> FALSE,
      tmax |-> SeriesOf(153, (6 :> None)),
      tmed |-> SeriesOf(77, NoDays),
      tmin |-> SeriesOf(-5, (6 :> None)),
      prec |-> SeriesOf(3, NoDays)]}

MaxHist == 3

RECURSIVE SeqsOf(_, _)
SeqsOf(S, n) ==
    IF n = 0 THEN {<<>>}
    ELSE LET shorter == SeqsOf(S, n - 1)
         IN  shorter \cup {Append(h, r) : h \in {g \in shorter : Len(g) = n - 1},
                                          r \in S}

(* Histories of at most MaxHist records, in any order, one per year. *)
Histories ==
    {h \in SeqsOf(HistoryYears, MaxHist) :
        \A i, j \in 1..Len(h) : i # j => h[i].year # h[j].year}

-----------------------------------------------------------------------------
(* post_process_data *)

TMaxSentinel == -100

TMinSentinel == 100

(* Assigning a float to an element of an integer numpy array (np.full of   *)
(* an int is an int64 array) stores its integer part, truncated toward     *)
(* zero.  In tenths: the multiple of 10 toward zero.                       *)
TruncToInt(t) == IF t < 0 THEN 0 - (((0 - t) \div 10) * 10) ELSE (t \div 10) * 10

(* The values of quantity q on day i, one per record in file order. *)
Column(hist, q, i) == [r \in 1..Len(hist) |-> hist[r][q][i]]

(* tmax = tmax + np.array(reg['tmax']) after None was replaced by 0:       *)
(* zeros, plus the first n values of the column in order.                  *)
RECURSIVE SumColumn(_, _)
SumColumn(col, n) ==
    IF n = 0 THEN F64Zero
    ELSE F64Add(SumColumn(col, n - 1),
                IF IsNone(col[n]) THEN F64Zero ELSE F64FromTenths(col[n][1]))

(* Variant: the divider is not decremented. *)
Divider_NoDecrement(col, n) == Len(col)

(* divider starts at len(historical_data) and loses one per None *)
RECURSIVE Divider(_, _)
Divider(col, n) ==
    IF n = 0 THEN Len(col)
    ELSE Divider(col, n - 1) - (IF IsNone(col[n]) THEN 1 ELSE 0)

MeanColumn(col) == F64DivNat(SumColumn(col, Len(col)), Divider(col, Len(col)))

(* tmax_record after the first n records, in tenths *)
RECURSIVE RecordMaxColumn(_, _)
RecordMaxColumn(col, n) ==
    IF n = 0 THEN 10 * TMaxSentinel
    ELSE LET before == RecordMaxColumn(col, n - 1)
         IN  IF ~IsNone(col[n]) /\ col[n][1] > before THEN TruncToInt(col[n][1])
             ELSE before

RECURSIVE RecordMinColumn(_, _)
RecordMinColumn(col, n) ==
    IF n = 0 THEN 10 * TMinSentinel
    ELSE LET before == RecordMinColumn(col, n - 1)
         IN  IF ~IsNone(col[n]) /\ col[n][1] < before THEN TruncToInt(col[n][1])
             ELSE before

(* A numpy operation is element by element, so the value at a day is a     *)
(* function of the day's column; it is computed once per distinct column.  *)
Columns(hist, q) == {Column(hist, q, i) : i \in 1..DaysInYear}

PerDay(hist, q, table) ==
    [i \in 1..DaysInYear |-> (CHOOSE p \in table : p[1] = Column(hist, q, i))[2]]

MeanPerDay(hist, q) ==
    PerDay(hist, q, {<<c, MeanColumn(c)>> : c \in Columns(hist, q)})

RecordMaxPerDay(hist) ==
    PerDay(hist, "tmax", {<<c, RecordMaxColumn(c, Len(c))>> : c \in Columns(hist, "tmax")})

RecordMinPerDay(hist) ==
    PerDay(hist, "tmin", {<<c, RecordMinColumn(c, Len(c))>> : c \in Columns(hist, "tmin")})

NoSummary == [kind |-> "none", exc |-> ""]

(* The exception the loops over a record end with: reg['prec'] of a        *)
(* record without that key, position 364 of a list that is shorter, the    *)
(* sum of the 365-value array and a longer one.                            *)
RecordFailure(reg) ==
    IF \E q \in QuantitySet : q \notin DOMAIN reg THEN "KeyError"
    ELSE IF \E q \in QuantitySet : Len(reg[q]) < DaysInYear THEN "IndexError"
    ELSE IF \E q \in QuantitySet : Len(reg[q]) > DaysInYear THEN "ValueError"
    ELSE ""

(* The outcome of post_process_data on what is on disk: "exit" when        *)
(* load_json returns False, "raise" with the exception of the first record *)
(* the loops fail on, else the summary and whether it was written ("true") *)
(* or not ("false").                                                       *)
PostProcessData(file, writable) ==
    IF IsNone(file) THEN [kind |-> "exit", exc |-> "SystemExit"]
    ELSE
    LET historical_data == file[1]
        failing == {r \in 1..Len(historical_data) : RecordFailure(historical_data[r]) # ""}
    IN  IF failing # {}
        THEN Raise(RecordFailure(historical_data[CHOOSE r \in failing :
                                                     \A o \in failing : r <= o]))
        ELSE [kind |-> IF writable THEN "true" ELSE "false", exc |-> "",
              tmax |-> MeanPerDay(historical_data, "tmax"),
              tmed |-> MeanPerDay(historical_data, "tmed"),
              tmin |-> MeanPerDay(historical_data, "tmin"),
              recordMax |-> RecordMaxPerDay(historical_data),
              recordMin |-> RecordMinPerDay(historical_data),
              prec |-> MeanPerDay(historical_data, "prec")]

-----------------------------------------------------------------------------
(* get_new_record *)

(* The comparison at position i raises a TypeError when the current value  *)
(* is None and an IndexError when a list has no position i.                *)
CompareRaises(in_current, in_summary, i) ==
    \/ i > Len(in_summary.recordMax)
    \/ IsNone(in_current.tmax[i])
    \/ i > Len(in_current.tmin)
    \/ i > Len(in_summary.recordMin)
    \/ IsNone(in_current.tmin[i])

CompareException(in_current, in_summary, i) ==
    IF i > Len(in_summary.recordMax) THEN "IndexError"
    ELSE IF IsNone(in_current.tmax[i]) THEN "TypeError"
    ELSE IF i > Len(in_current.tmin) \/ i > Len(in_summary.recordMin) THEN "IndexError"
    ELSE "TypeError"

(* maxs and mins hold [i, value] with i counted from 0. *)
GetNewRecord(in_current, in_summary) ==
    LET n == Len(in_current.tmax)
        IsMax(i) == in_current.tmax[i][1] > in_summary.recordMax[i]
        IsMin(i) == in_current.tmin[i][1] < in_summary.recordMin[i]
        maxAt == SelectSeq([i \in 1..n |-> i], IsMax)
        minAt == SelectSeq([i \in 1..n |-> i], IsMin)
    IN  IF \E i \in 1..n : CompareRaises(in_current, in_summary, i)
        THEN LET bad == CHOOSE i \in 1..n :
                            /\ CompareRaises(in_current, in_summary, i)
                            /\ \A j \in 1..(i - 1) : ~CompareRaises(in_current, in_summary, j)
             IN  Raise(CompareException(in_current, in_summary, bad))
        ELSE [kind |-> "return", exc |-> "",
              maxs |-> [k \in 1..Len(maxAt) |-> <<maxAt[k] - 1, in_current.tmax[maxAt[k]][1]>>],
              mins |-> [k \in 1..Len(minAt) |-> <<minAt[k] - 1, in_current.tmin[minAt[k]][1]>>]]

(* The current year so far: the first n days of a year whose readings      *)
(* fall below, on and beyond the records of the histories above.           *)
CurrentSeries(tmaxAt, tminAt, n) ==
    [tmax |-> SubSeq(SeriesOf(150, tmaxAt), 1, n),
     tmin |-> SubSeq(SeriesOf(20, tminAt), 1, n)]

CurrentLengths == {0, 1, 5, 40, DaysInYear}

CurrentYears ==
    {CurrentSeries(tmaxAt, tminAt, n) :
        tmaxAt \in {NoDays,
                    (1 :> Some(100)) @@ (2 :> Some(101)) @@ (3 :> Some(200)) @@ (4 :> Some(201)),
                    (2 :> Some(300)) @@ (3 :> None),
                    (30 :> None)},
        tminAt \in {NoDays,
                    (1 :> Some(0)) @@ (2 :> Some(-1)) @@ (4 :> Some(-40)) @@ (5 :> Some(-50)),
                    (2 :> None)},
        n \in CurrentLengths}

(* The summaries the comparison is made against. *)
SummaryHistories == {h \in Histories : Len(h) = 1 /\ h[1].year \in {2020, 2021, 2022}}

NoCurrent == [tmax |-> <<>>, tmin |-> <<>>]

-----------------------------------------------------------------------------
(* download_data.py: the rebuild of the history file *)

year_ini == 1952

year_end == 2022

(* The script scans range(year_ini, year_end + 1); the model scans the     *)
(* last NumYears years of that range, the leap year 2020 among them.       *)
NumYears == 3

ScanFrom == IF year_end - NumYears + 1 < year_ini THEN year_ini
            ELSE year_end - NumYears + 1

ScanYears == ScanFrom..year_end

(* What the source answers for one year: the whole year ("ok"), the whole  *)
(* year with one null field ("null"), a descriptor whose estado is 404     *)
(* ("descripcion") or nothing that get_data_from_url can return ("none").  *)
YearKinds == {"ok", "null", "descripcion", "none"}

YearResponse(y, kind) ==
    Response(y, 1, 12,
             [defect |-> IF kind = "null"
                         THEN [date |-> <<3, 1>>, q |-> "tmax", kind |-> "null"]
                         ELSE NoDefect,
              omit |-> NoOmit],
             IF kind = "null" THEN "ok" ELSE kind)

(* float(item[q].replace(',', '.')) under a bare except: None whatever the *)
(* exception.                                                              *)
ValueOrNone(item, q) == IF FieldRaises(item, q) THEN None ELSE FieldValueOf(item, q)

(* aux: every entry of the answer gives one value per quantity; no entry   *)
(* is skipped and prec is not collected.                                   *)
YearRecord(data_json, in_year) ==
    LET Series(q) == [k \in 1..Len(data_json) |-> ValueOrNone(data_json[k], q)]
        tmax_list == Series("tmax")
        tmed_list == Series("tmed")
        tmin_list == Series("tmin")
        complete  == /\ ~(Len(data_json) < 365)
                     /\ \A k \in 1..Len(data_json) :
                            /\ ~IsNone(tmax_list[k])
                            /\ ~IsNone(tmed_list[k])
                            /\ ~IsNone(tmin_list[k])
    IN  [year |-> in_year, completeYear |-> complete,
         leapYear |-> Len(data_json) = 366,
         tmax |-> tmax_list, tmed |-> tmed_list, tmin |-> tmin_list]

(* One iteration of the main loop: "record" with aux when the year was     *)
(* fetched, "skip" when the descriptor's estado is not 200, "raise" when   *)
(* an exception ends the script; with the requests and sleeps it made.     *)
ScanYear(in_year, resp) ==
    IF IsNone(resp.desc)
    THEN [kind |-> "raise", exc |-> "TypeError", log |-> <<"request">>]
    ELSE IF "estado" \notin DOMAIN resp.desc[1]
    THEN [kind |-> "raise", exc |-> "KeyError", log |-> <<"request">>]
    ELSE IF resp.desc[1]["estado"] = 200
    THEN IF IsNone(resp.data)
         THEN [kind |-> "raise", exc |-> "TypeError",
               log |-> <<"request", "request", "sleep">>]
         ELSE [kind |-> "record", exc |-> "",
               aux |-> YearRecord(resp.data[1], in_year),
               log |-> <<"request", "request", "sleep">>]
    ELSE IF "descripcion" \notin DOMAIN resp.desc[1]
    THEN [kind |-> "raise", exc |-> "KeyError", log |-> <<"request">>]
    ELSE [kind |-> "skip", exc |-> "", log |-> <<"request">>]

(* Variant: the record is put at the front of the list. *)
AppendRecord_AtFront(records, aux) == <<aux>> \o records

(* data_clean.append(aux) *)
AppendRecord(records, aux) == Append(records, aux)

-----------------------------------------------------------------------------
(* aemet3_main.py: calculate_mean_values *)

(* list.pop(59) *)
Pop59(list) == SubSeq(list, 1, 59) \o SubSeq(list, 61, Len(list))

(* Variant: the value at index 59 is left in the lists of a leap year. *)
RemoveLeapDay_Keep(reg) == reg

(* if reg['leapYear']: pop(59) of tmax, tmed and tmin *)
RemoveLeapDay(reg) ==
    IF reg.leapYear
    THEN [reg EXCEPT !.tmax = Pop59(@), !.tmed = Pop59(@), !.tmin = Pop59(@)]
    ELSE reg

Temperatures == {"tmax", "tmed", "tmin"}

(* The exception the loop body ends with for a record: pop(59) of a list   *)
(* with no index 59, position 364 of a shorter list in the None cleaning   *)
(* of an incomplete year, the sum of the 365-value array and a list of     *)
(* another length or one that still holds None.                            *)
MeanFailure(reg) ==
    IF reg.leapYear /\ \E q \in Temperatures : Len(reg[q]) < 60 THEN "IndexError"
    ELSE LET popped == RemoveLeapDay(reg)
         IN  IF ~reg.completeYear /\ \E q \in Temperatures : Len(popped[q]) < DaysInYear
             THEN "IndexError"
             ELSE IF \E q \in Temperatures : Len(popped[q]) # DaysInYear
             THEN "ValueError"
             ELSE IF reg.completeYear
                     /\ \E q \in Temperatures : \E i \in 1..DaysInYear : IsNone(popped[q][i])
             THEN "TypeError"
             ELSE ""

(* False when the file cannot be loaded, else the three mean series.       *)
CalculateMeanValues(in_file) ==
    IF IsNone(in_file) THEN ReturnFalse
    ELSE
    LET historical_data == in_file[1]
        failing == {r \in 1..Len(historical_data) : MeanFailure(historical_data[r]) # ""}
        popped  == [r \in 1..Len(historical_data) |-> RemoveLeapDay(historical_data[r])]
    IN  IF failing # {}
        THEN Raise(MeanFailure(historical_data[CHOOSE r \in failing :
                                                   \A o \in failing : r <= o]))
        ELSE [kind |-> "return", exc |-> "",
              tmax |-> MeanPerDay(popped, "tmax"),
              tmed |-> MeanPerDay(popped, "tmed"),
              tmin |-> MeanPerDay(popped, "tmin")]

-----------------------------------------------------------------------------
(* The two removals of the leap day.  The rebuild script keeps every entry *)
(* of a year and calculate_mean_values pops raw index 59 of a record whose *)
(* leapYear is set; get_current_data skips the entry dated February 29.    *)

(* items with the entries at positions i and j exchanged *)
SwapEntries(items, i, j) ==
    [k \in 1..Len(items) |-> IF k = i THEN items[j] ELSE IF k = j THEN items[i] ELSE items[k]]

(* Whole-year answers: the complete years 2019 and 2020, the leap year     *)
(* with one day left out, and the leap year with two neighbouring entries  *)
(* out of order (February 29 and March 1, July 1 and July 2).              *)
YearPayloads ==
    {Entries(2019, 1, 12, NoDefect, NoOmit)}
    \cup {Entries(2020, 1, 12, NoDefect, om) : om \in OmitDates \cup {NoOmit}}
    \cup {SwapEntries(Entries(2020, 1, 12, NoDefect, NoOmit), 60, 61),
          SwapEntries(Entries(2020, 1, 12, NoDefect, NoOmit), 183, 184)}

ByPosition(data_json) == RemoveLeapDay(YearRecord(data_json, 0))

ByDate(data_json) == GetCurrentData(Some(data_json), 0)

NoAnswer == [desc |-> None, data |-> None]

-----------------------------------------------------------------------------
(* aemet3_main.py: the series of the current year *)

(* The positions the loop ignores: `leap_year and item != 59` compares the *)
(* entry, a dict, with 59, which holds for every entry of a leap year.     *)
IgnoredItems(data_json, leap_year) == IF leap_year THEN 1..Len(data_json) ELSE {}

(* "unset" when the descriptor's estado is not 200: current_record is not  *)
(* assigned.                                                               *)
CurrentYearData(resp) ==
    IF IsNone(resp.desc) THEN [kind |-> "raise", exc |-> "TypeError"]
    ELSE IF "estado" \notin DOMAIN resp.desc[1] THEN [kind |-> "raise", exc |-> "KeyError"]
    ELSE IF resp.desc[1]["estado"] # 200 THEN [kind |-> "unset", exc |-> ""]
    ELSE IF IsNone(resp.data) THEN [kind |-> "raise", exc |-> "TypeError"]
    ELSE
    LET data_json == resp.data[1]
        leap_year == Len(data_json) = 366
        ignored   == IgnoredItems(data_json, leap_year)
        kept      == SelectSeq([k \in 1..Len(data_json) |-> k], LAMBDA k : k \notin ignored)
        Series(q) == [k \in 1..Len(kept) |-> ValueOrNone(data_json[kept[k]], q)]
    IN  [kind |-> "record", exc |-> "",
         tmax |-> Series("tmax"), tmed |-> Series("tmed"), tmin |-> Series("tmin")]

(* What the source may answer for the current year: a whole year, the      *)
(* year up to the end of March, a year with a null reading, and the        *)
(* failures of the descriptor request.                                     *)
CurrentAnswers ==
    {[desc |-> Descriptor("ok"), data |-> Some(p)] : p \in YearPayloads}
    \cup {Response(y, 1, 3, [defect |-> NoDefect, omit |-> NoOmit], "ok") : y \in Years}
    \cup {YearResponse(y, k) : y \in Years, k \in YearKinds}

-----------------------------------------------------------------------------
(* update_setup.  A dict is a function from its keys to values; a value is *)
(* None or a number.  Dicts are objects: the heap is the sequence of the   *)
(* dicts created so far and a reference is a position of it.               *)

SetupKeys == {"station", "lastYear"}

SetupValues == {None, Some(1), Some(2)}

SetupDicts == UNION {[K -> SetupValues] : K \in SUBSET SetupKeys}

(* dict.get(key): None when the key is absent *)
DictGet(dict, key) == IF key \in DOMAIN dict THEN dict[key] ELSE None

(* dict[key] = value *)
DictSet(dict, key, value) ==
    [k \in DOMAIN dict \cup {key} |-> IF k = key THEN value ELSE dict[k]]

(* Variant: updated_json is the input object itself. *)
DeepCopy_Alias(objects, ref) == [heap |-> objects, ref |-> ref]

(* copy.deepcopy(in_json): a new object with the same content *)
DeepCopy(objects, ref) == [heap |-> Append(objects, objects[ref]), ref |-> Len(objects) + 1]

(* The frame of one call: the heap after it, the reference returned and    *)
(* whether the file was written.                                           *)
UpdateSetup(objects, in_ref, in_id, in_new_parameter) ==
    LET copied       == DeepCopy(objects, in_ref)
        updated_json == copied.ref
        after        == [copied.heap EXCEPT
                            ![updated_json] = DictSet(@, in_id, in_new_parameter)]
    IN  [heap  |-> after,
         ret   |-> updated_json,
         wrote |-> DictGet(after[updated_json], in_id) # DictGet(after[in_ref], in_id)]

MaxCalls == 2

-----------------------------------------------------------------------------
(* The state machine.  Each kernel function is an entry point of its own:  *)
(* a run starts with the inputs of one call (what the remote source holds, *)
(* the files on disk, the arguments) and the action of the function        *)
(* applies it to them.                                                     *)

NoRemote == [year |-> 0,
             first  |-> [desc |-> None, data |-> None],
             second |-> [desc |-> None, data |-> None]]

NoDisk == [history |-> None, writable |-> TRUE]

(* A leap year as the rebuild script writes it: 366 values per             *)
(* temperature, February 29 at raw index 59, March 1 at 60 and December    *)
(* 31 at 365, each with a reading of its own; and the same record with     *)
(* 366 precipitation values next to them.                                  *)
LeapSeriesOf(base) ==
    [i \in 1..(DaysInYear + 1) |->
        IF i = 60 THEN Some(base + 290)
        ELSE IF i = 61 THEN Some(base + 301)
        ELSE IF i = 366 THEN Some(base + 1231)
        ELSE Some(base)]

LeapRecord ==
    [year |-> 2020, completeYear |-> TRUE, leapYear |-> TRUE,
     tmax |-> LeapSeriesOf(100), tmed |-> LeapSeriesOf(50), tmin |-> LeapSeriesOf(0)]

LeapRecordWithPrec ==
    [f \in DOMAIN LeapRecord \cup {"prec"} |->
        IF f = "prec" THEN LeapSeriesOf(0) ELSE LeapRecord[f]]

LeapHistories ==
    {<<LeapRecord>>, <<LeapRecordWithPrec>>,
     <<CHOOSE r \in HistoryYears : r.year = 2021, LeapRecordWithPrec>>}

(* The history file (None: missing or malformed) and whether the summary   *)
(* file can be written.                                                    *)
Disks ==
    {[history |-> Some(h), writable |-> TRUE] : h \in Histories}
    \cup {[history |-> Some(h), writable |-> FALSE] : h \in {g \in Histories : Len(g) = 1}}
    \cup {[history |-> None, writable |-> TRUE]}
    \cup {[history |-> Some(h), writable |-> TRUE] : h \in LeapHistories}

SetupIdle ==
    /\ heap = <<>>
    /\ in_json = 0
    /\ setup_file = None
    /\ calls = <<>>

YearIdle ==
    /\ answer = NoAnswer
    /\ byPosition = NotCalled
    /\ byDate = NotCalled
    /\ current_record = NotCalled

ScriptsIdle ==
    /\ source = <<>>
    /\ year = 0
    /\ data_clean = <<>>
    /\ output_file = None
    /\ means = NotCalled
    /\ YearIdle

InitDownload ==
    /\ op = "download"
    /\ remote \in {Remote(scn) : scn \in Scenarios}
    /\ disk = NoDisk
    /\ summary = NoSummary
    /\ current = NoCurrent

InitPostProcess ==
    /\ op = "post_process"
    /\ remote = NoRemote
    /\ disk \in Disks
    /\ summary = NoSummary
    /\ current = NoCurrent

InitNewRecord ==
    /\ op = "new_record"
    /\ remote = NoRemote
    /\ disk = NoDisk
    /\ summary \in {PostProcessData(Some(h), TRUE) : h \in SummaryHistories}
    /\ current \in CurrentYears

Init ==
    /\ InitDownload \/ InitPostProcess \/ InitNewRecord
    /\ pc = "start"
    /\ firstPart = NotCalled
    /\ secondPart = NotCalled
    /\ result = NotCalled
    /\ newRecord = NotCalled
    /\ log = <<>>
    /\ ScriptsIdle
    /\ SetupIdle

DownloadYear ==
    /\ op = "download"
    /\ pc = "start"
    /\ pc' = "done"
    /\ LET frame == DownloadYearData(remote)
       IN  /\ firstPart' = frame.first_part
           /\ secondPart' = frame.second_part
           /\ result' = frame.ret
           /\ log' = frame.log
    /\ UNCHANGED <<op, remote, disk, summary, current, newRecord, scriptVars, setupVars>>

PostProcess ==
    /\ op = "post_process"
    /\ pc = "start"
    /\ pc' = "done"
    /\ summary' = PostProcessData(disk.history, disk.writable)
    /\ UNCHANGED <<op, remote, disk, firstPart, secondPart, result, current, newRecord,
                   log, scriptVars, setupVars>>

NewRecord ==
    /\ op = "new_record"
    /\ pc = "start"
    /\ pc' = "done"
    /\ newRecord' = GetNewRecord(current, summary)
    /\ UNCHANGED <<op, remote, disk, firstPart, secondPart, result, summary, current,
                   log, scriptVars, setupVars>>

Next == DownloadYear \/ PostProcess \/ NewRecord

Spec == Init /\ [][Next]_vars

-----------------------------------------------------------------------------
(* The scripts.  A run of download_data.py starts with data_clean empty at *)
(* the first year of the scan; each step is one iteration of the main      *)
(* loop, and the step of the last year also writes the output file.        *)

RebuildIdle ==
    /\ source = <<>>
    /\ year = 0
    /\ data_clean = <<>>
    /\ output_file = None

InitRebuild ==
    /\ op = "rebuild"
    /\ pc = "loop"
    /\ source \in [ScanYears -> YearKinds]
    /\ year = ScanFrom
    /\ data_clean = <<>>
    /\ output_file = None
    /\ disk = NoDisk
    /\ means = NotCalled

(* The history files calculate_mean_values is given: files as the rebuild  *)
(* writes them, with and without a leap year, and no readable file.        *)
MeanFiles ==
    {Some(h) : h \in LeapHistories}
    \cup {Some(h) : h \in {g \in Histories : Len(g) <= 2}}
    \cup {None}

InitMeanValues ==
    /\ op = "mean_values"
    /\ pc = "start"
    /\ disk \in {[history |-> f, writable |-> TRUE] : f \in MeanFiles}
    /\ means = NotCalled
    /\ RebuildIdle

InitLeapPaths ==
    /\ op = "leap_paths"
    /\ pc = "start"
    /\ answer \in {[desc |-> Descriptor("ok"), data |-> Some(p)] : p \in YearPayloads}
    /\ disk = NoDisk
    /\ means = NotCalled
    /\ RebuildIdle

InitCurrentYear ==
    /\ op = "current_year"
    /\ pc = "start"
    /\ answer \in CurrentAnswers
    /\ disk = NoDisk
    /\ means = NotCalled
    /\ RebuildIdle

InitScripts ==
    /\ \/ InitRebuild /\ answer = NoAnswer
       \/ InitMeanValues /\ answer = NoAnswer
       \/ InitLeapPaths
       \/ InitCurrentYear
    /\ byPosition = NotCalled
    /\ byDate = NotCalled
    /\ current_record = NotCalled
    /\ log = <<>>
    /\ remote = NoRemote
    /\ firstPart = NotCalled
    /\ secondPart = NotCalled
    /\ result = NotCalled
    /\ summary = NoSummary
    /\ current = NoCurrent
    /\ newRecord = NotCalled
    /\ SetupIdle

(* for year in range(year_ini, year_end + 1): ... ; after the last year    *)
(* json.dump(data_clean, file).  An exception ends the script where it is. *)
RebuildYear ==
    /\ op = "rebuild"
    /\ pc = "loop"
    /\ LET step    == ScanYear(year, YearResponse(year, source[year]))
           records == IF step.kind = "record"
                      THEN AppendRecord(data_clean, step.aux)
                      ELSE data_clean
       IN  /\ log' = log \o step.log
           /\ data_clean' = records
           /\ pc' = IF step.kind = "raise" THEN "raised"
                    ELSE IF year = year_end THEN "done" ELSE "loop"
           /\ year' = IF step.kind = "raise" \/ year = year_end THEN year ELSE year + 1
           /\ output_file' = IF step.kind # "raise" /\ year = year_end
                             THEN Some(records) ELSE output_file
    /\ UNCHANGED <<op, source, means, kernelVars, setupVars, yearVars>>

MeanValues ==
    /\ op = "mean_values"
    /\ pc = "start"
    /\ pc' = "done"
    /\ means' = CalculateMeanValues(disk.history)
    /\ UNCHANGED <<op, log, kernelVars, setupVars, source, year, data_clean, output_file, yearVars>>

(* The same answer goes through both removals. *)
LeapPaths ==
    /\ op = "leap_paths"
    /\ pc = "start"
    /\ pc' = "done"
    /\ byPosition' = ByPosition(answer.data[1])
    /\ byDate' = ByDate(answer.data[1])
    /\ UNCHANGED <<op, log, kernelVars, setupVars, source, year, data_clean, output_file, means,
                   answer, current_record>>

CurrentYear ==
    /\ op = "current_year"
    /\ pc = "start"
    /\ pc' = "done"
    /\ current_record' = CurrentYearData(answer)
    /\ UNCHANGED <<op, log, kernelVars, setupVars, source, year, data_clean, output_file, means,
                   answer, byPosition, byDate>>

NextScripts == RebuildYear \/ MeanValues \/ LeapPaths \/ CurrentYear

Scripts == InitScripts /\ [][NextScripts]_vars

-----------------------------------------------------------------------------
(* The setup.  A run starts with the setup dict the caller loaded from the *)
(* setup file; each step is one call of update_setup on the dict the       *)
(* caller holds, after which the caller goes on with the returned dict or  *)
(* keeps the one it had.                                                   *)

InitSetup ==
    /\ op = "update_setup"
    /\ pc = "start"
    /\ \E dict \in SetupDicts :
           /\ heap = <<dict>>
           /\ setup_file = Some(dict)
    /\ in_json = 1
    /\ calls = <<>>
    /\ log = <<>>
    /\ remote = NoRemote
    /\ disk = NoDisk
    /\ firstPart = NotCalled
    /\ secondPart = NotCalled
    /\ result = NotCalled
    /\ summary = NoSummary
    /\ current = NoCurrent
    /\ newRecord = NotCalled
    /\ ScriptsIdle

CallUpdateSetup(in_id, in_new_parameter, rebind) ==
    /\ op = "update_setup"
    /\ Len(calls) < MaxCalls
    /\ LET frame == UpdateSetup(heap, in_json, in_id, in_new_parameter)
       IN  /\ heap' = frame.heap
           /\ setup_file' = IF frame.wrote THEN Some(frame.heap[frame.ret]) ELSE setup_file
           /\ in_json' = IF rebind THEN frame.ret ELSE in_json
           /\ calls' = Append(calls, [id |-> in_id, value |-> in_new_parameter,
                                      arg |-> in_json, before |-> heap[in_json],
                                      ret |-> frame.ret, wrote |-> frame.wrote])
    /\ pc' = "done"
    /\ UNCHANGED <<op, log, kernelVars, scriptVars>>

NextSetup ==
    \E in_id \in SetupKeys, in_new_parameter \in SetupValues, rebind \in BOOLEAN :
        CallUpdateSetup(in_id, in_new_parameter, rebind)

Setup == InitSetup /\ [][NextSetup]_vars

-----------------------------------------------------------------------------
(* Properties *)

DownloadDone == op = "download" /\ pc = "done"

PostProcessDone == op = "post_process" /\ pc = "done"

NewRecordDone == op = "new_record" /\ pc = "done"

(* The number of day-entries the source returned for the whole year. *)
RawCount == Len(remote.first.data[1]) + Len(remote.second.data[1])

SummaryEmitted == summary.kind \in {"true", "false"}

SetMax(S) == CHOOSE x \in S : \A y \in S : y <= x

SetMin(S) == CHOOSE x \in S : \A y \in S : x <= y

(* C1: for a year payload of 365 raw day-entries (non-leap year) or 366    *)
(* (leap year), every series of the record download_year_data returns has  *)
(* length exactly 365.                                                     *)
C1_LengthInvariant ==
    (/\ DownloadDone
     /\ result.kind = "record"
     /\ RawCount = (IF IsLeap(remote.year) THEN 366 ELSE 365))
    => \A q \in QuantitySet : Len(result[q]) = DaysInYear

C1_Witness ==
    /\ DownloadDone
    /\ result.kind = "record"
    /\ RawCount = 366
    /\ \A q \in QuantitySet : Len(result[q]) = DaysInYear

(* C2: when the payload get_current_data normalizes holds an entry dated   *)
(* February 29, the series are the values of all the other entries in      *)
(* their order, whatever position the entry has; no temperature series     *)
(* holds the February 29 reading, and for a complete payload the March 1   *)
(* value is at index 59.                                                   *)
LeapDayAt(items, y) ==
    {k \in 1..Len(items) : items[k]["fecha"].s = FormatDate(y, 2, 29)}

C2_LeapDayRemoval ==
    (/\ DownloadDone
     /\ firstPart.kind = "record"
     /\ LeapDayAt(remote.first.data[1], remote.year) # {})
    => LET items == remote.first.data[1]
           p     == CHOOSE k \in LeapDayAt(items, remote.year) : TRUE
           Other(k) == items[IF k < p THEN k ELSE k + 1]
       IN  \A q \in QuantitySet :
              /\ Len(firstPart[q]) = Len(items) - 1
              /\ \A k \in 1..(Len(items) - 1) : firstPart[q][k] = FieldValueOf(Other(k), q)
              /\ q # "prec" =>
                    \A k \in 1..Len(firstPart[q]) : firstPart[q][k] # Some(Reading(q, 2, 29))
              /\ Len(items) = 182 =>
                    \E k \in 1..Len(items) :
                        /\ items[k]["fecha"].s = FormatDate(remote.year, 3, 1)
                        /\ firstPart[q][59 + 1] = FieldValueOf(items[k], q)

C2_Witness ==
    /\ DownloadDone
    /\ firstPart.kind = "record"
    /\ Len(remote.first.data[1]) = 182
    /\ LeapDayAt(remote.first.data[1], remote.year) = {60}
    /\ firstPart.tmax[59 + 1] = Some(Reading("tmax", 3, 1))
    /\ Len(firstPart.tmax) = 181

(* C3: normalization never raises: every field that is a decimal-comma     *)
(* string yields its number, and an empty, unparseable, null or missing    *)
(* field yields None while the rest of the record is normalized.           *)
ExpectedValue(item, q) ==
    IF q \notin DOMAIN item THEN None
    ELSE IF item[q].t = "null" THEN None
    ELSE PyFloat(ReplaceComma(item[q].s))

NormalizedAsClaimed(part, items, y) ==
    LET others == SelectSeq(items, LAMBDA item : item["fecha"].s # FormatDate(y, 2, 29))
    IN  /\ part.kind = "record"
        /\ \A q \in QuantitySet :
              /\ Len(part[q]) = Len(others)
              /\ \A k \in 1..Len(others) : part[q][k] = ExpectedValue(others[k], q)

C3_NeverRaises ==
    (/\ DownloadDone
     /\ DescriptorOk(remote.first.desc)
     /\ ~IsNone(remote.first.data))
    => NormalizedAsClaimed(firstPart, remote.first.data[1], remote.year)

(* C4: at every day and for every quantity with at least one present       *)
(* value, the mean of the summary is the sum of the present values divided *)
(* by the number of records whose value is present on that day.            *)
PresentValues(col) == SelectSeq(col, LAMBDA v : ~IsNone(v))

RECURSIVE SumValues(_, _)
SumValues(vals, n) ==
    IF n = 0 THEN F64Zero
    ELSE F64Add(SumValues(vals, n - 1), F64FromTenths(vals[n][1]))

MeanOfPresent(col) ==
    F64DivNat(SumValues(PresentValues(col), Len(PresentValues(col))),
              Len(PresentValues(col)))

C4_MeanOfPresent ==
    (PostProcessDone /\ SummaryEmitted)
    => LET hist == disk.history[1]
       IN  \A q \in QuantitySet :
             \A c \in Columns(hist, q) :
                PresentValues(c) # <<>> =>
                   LET mean == MeanOfPresent(c)
                   IN  \A i \in 1..DaysInYear :
                          Column(hist, q, i) = c => summary[q][i] = mean

C4_Witness ==
    /\ PostProcessDone
    /\ SummaryEmitted
    /\ Len(disk.history[1]) = 2
    /\ \E i \in 1..DaysInYear :
          /\ IsNone(disk.history[1][1].tmax[i])
          /\ disk.history[1][2].tmax[i] = Some(150)
          /\ summary.tmax[i] = F64FromTenths(150)
          /\ disk.history[1][1].tmax[i + 1] = Some(153)
          /\ disk.history[1][2].tmax[i + 1] = Some(202)
          /\ summary.tmax[i + 1] = F64DivNat(F64Add(F64FromTenths(153), F64FromTenths(202)), 2)

(* C5: if on some day no record has a present value of some quantity, the  *)
(* aggregation fails with an EmptyDayAggregate error and emits no summary. *)
EmptyDay(hist) ==
    \E q \in QuantitySet : \E i \in 1..DaysInYear :
        \A r \in 1..Len(hist) : IsNone(hist[r][q][i])

C5_EmptyDayFails ==
    (PostProcessDone /\ ~IsNone(disk.history) /\ EmptyDay(disk.history[1]))
    => summary.kind = "raise" /\ summary.exc = "EmptyDayAggregate"

(* C6: on every day with a present value, recordMax is exactly the maximum *)
(* of the present tmax values and recordMin exactly the minimum of the     *)
(* present tmin values.                                                    *)
PresentSet(hist, q, i) ==
    {hist[r][q][i][1] : r \in {k \in 1..Len(hist) : ~IsNone(hist[k][q][i])}}

C6_RecordsAreExtremes ==
    (PostProcessDone /\ SummaryEmitted)
    => LET hist == disk.history[1]
       IN  \A i \in 1..DaysInYear :
              /\ PresentSet(hist, "tmax", i) # {} =>
                    summary.recordMax[i] = SetMax(PresentSet(hist, "tmax", i))
              /\ PresentSet(hist, "tmin", i) # {} =>
                    summary.recordMin[i] = SetMin(PresentSet(hist, "tmin", i))

(* C7: the summary is the same for every permutation of the history. *)
C7_PermutationInvariant ==
    (PostProcessDone /\ SummaryEmitted)
    => LET hist == disk.history[1]
           n    == Len(hist)
       IN  \A p \in Permutations(1..n) :
              PostProcessData(Some([i \in 1..n |-> hist[p[i]]]), disk.writable) = summary

(* C8: the leapYear flag of the returned record is true exactly when the   *)
(* source returned 366 day-entries for the whole year.                     *)
C8_LeapFlag ==
    (DownloadDone /\ result.kind = "record")
    => (result.leapYear <=> RawCount = 366)

(* C9: the completeYear flag of the returned record is true exactly when   *)
(* no value of tmax, tmed, tmin or prec is absent in the record.           *)
C9_CompleteFlag ==
    (DownloadDone /\ result.kind = "record")
    => (result.completeYear <=>
           \A q \in QuantitySet : \A k \in 1..Len(result[q]) : ~IsNone(result[q][k]))

(* C10: get_new_record returns exactly the pairs (i, tmax[i]) with tmax[i] *)
(* above recordMax[i] and the pairs (i, tmin[i]) with tmin[i] below        *)
(* recordMin[i]; an absent value is not reported and the call does not     *)
(* fail.                                                                   *)
Elements(seq) == {seq[k] : k \in 1..Len(seq)}

C10_NewRecordsExact ==
    NewRecordDone
    => /\ newRecord.kind = "return"
       /\ Elements(newRecord.maxs) =
             {<<i - 1, current.tmax[i][1]>> :
                 i \in {j \in 1..Len(current.tmax) :
                          /\ ~IsNone(current.tmax[j])
                          /\ current.tmax[j][1] > summary.recordMax[j]}}
       /\ Elements(newRecord.mins) =
             {<<i - 1, current.tmin[i][1]>> :
                 i \in {j \in 1..Len(current.tmin) :
                          /\ ~IsNone(current.tmin[j])
                          /\ current.tmin[j][1] < summary.recordMin[j]}}
       /\ Cardinality(Elements(newRecord.maxs)) = Len(newRecord.maxs)
       /\ Cardinality(Elements(newRecord.mins)) = Len(newRecord.mins)


(* C13: download_year_data reports failure as the value False, without     *)
(* raising, whenever the descriptor request of either half-year yields     *)
(* None or a status other than 200; when the first half fails the second   *)
(* is never requested.                                                     *)
C13_FailureIsFalse ==
    DownloadDone =>
        /\ ~DescriptorOk(remote.first.desc) =>
               /\ result = ReturnFalse
               /\ secondPart = NotCalled
               /\ log = <<"request">>
        /\ (firstPart.kind = "record" /\ ~DescriptorOk(remote.second.desc)) =>
               result = ReturnFalse

(* The history with the value at raw index 59 taken out of the series of   *)
(* its leap-year records.                                                  *)
WithoutLeapDay(hist) ==
    [r \in 1..Len(hist) |->
        IF hist[r].leapYear
        THEN [f \in DOMAIN hist[r] |->
                 IF f \in QuantitySet
                 THEN SubSeq(hist[r][f], 1, 59) \o SubSeq(hist[r][f], 61, Len(hist[r][f]))
                 ELSE hist[r][f]]
        ELSE hist[r]]

HoldsLeapRecord(hist) ==
    \E r \in 1..Len(hist) : hist[r].leapYear /\ Len(hist[r].tmax) = 366

(* C14: a persisted leap-year record keeps 366 raw values per quantity and *)
(* the aggregation removes the February 29 value before summing: the       *)
(* summary is that of the history without the values at raw index 59, so   *)
(* that the March 1 value of the leap year contributes to index 59 and its *)
(* December 31 value to index 364.                                         *)
C14_LeapDayAtAggregation ==
    (/\ PostProcessDone
     /\ ~IsNone(disk.history)
     /\ HoldsLeapRecord(disk.history[1]))
    => /\ SummaryEmitted
       /\ \A q \in {"tmax", "tmed", "tmin"} :
              summary[q] = MeanPerDay(WithoutLeapDay(disk.history[1]), q)

(* C15: post_process_data returns True exactly when the summary was        *)
(* computed and saved, and returns False, the process going on and no      *)
(* summary being written, when the history file is missing or malformed    *)
(* or the summary cannot be written.                                       *)
C15_ReturnsBoolean ==
    PostProcessDone =>
        /\ IsNone(disk.history) => summary.kind = "false"
        /\ (~IsNone(disk.history) /\ ~disk.writable) => summary.kind = "false"
        /\ summary.kind = "true" => (~IsNone(disk.history) /\ disk.writable)

(* The entries of both half-year answers, first half first, without those  *)
(* dated February 29.                                                      *)
YearEntries ==
    SelectSeq(remote.first.data[1] \o remote.second.data[1],
              LAMBDA item : item["fecha"].s # FormatDate(remote.year, 2, 29))

DateBefore(a, b) == a[1] < b[1] \/ (a[1] = b[1] /\ a[2] < b[2])

(* C16: the series download_year_data returns for each quantity is the     *)
(* first half-year followed by the second: position k of every one of the  *)
(* four series is the value of the k-th entry of the year, every entry of  *)
(* both halves gives exactly one position, and positions follow the        *)
(* calendar.                                                               *)
C16_HalvesInOrder ==
    (DownloadDone /\ result.kind = "record") =>
        LET entries == YearEntries
            dates   == [k \in 1..Len(entries) |-> MonthDay(entries[k])]
        IN  /\ \A q \in QuantitySet :
                   result[q] = [k \in 1..Len(entries) |-> FieldValueOf(entries[k], q)]
            /\ \A k \in 1..(Len(entries) - 1) : DateBefore(dates[k], dates[k + 1])

C16_Witness ==
    /\ DownloadDone
    /\ result.kind = "record"
    /\ Len(result.tmax) = DaysInYear
    /\ \A q \in QuantitySet :
           /\ result[q][181] = Some(Reading(q, 6, 30))
           /\ result[q][182] = Some(Reading(q, 7, 1))
           /\ result[q][365] = Some(Reading(q, 12, 31))

(* The seconds slept between positions i and j of the log. *)
SleptBetween(i, j) == SleepSeconds * Cardinality({k \in (i + 1)..(j - 1) : log[k] = "sleep"})

(* C17: between any two consecutive requests to the remote source there is *)
(* a pacing delay of at least the one second the code sleeps.              *)
C17_PacedRequests ==
    \A i, j \in 1..Len(log) :
        (/\ i < j
         /\ log[i] = "request"
         /\ log[j] = "request"
         /\ \A k \in (i + 1)..(j - 1) : log[k] # "request")
        => SleptBetween(i, j) >= SleepSeconds

-----------------------------------------------------------------------------
(* Properties of the rebuild script *)

RecordYears(records) == [k \in 1..Len(records) |-> records[k].year]

(* The years whose fetch fails: no record comes back for them. *)
FailedYears == {y \in ScanYears : source[y] \in {"descripcion", "none"}}

(* C11: in a full rebuild, when the fetch of any year fails no history     *)
(* file is written; a written file holds a record of every year of the     *)
(* range.                                                                  *)
C11_FailFast ==
    op = "rebuild" =>
        /\ (FailedYears # {} => IsNone(output_file))
        /\ (~IsNone(output_file) =>
               \A y \in ScanYears :
                   \E k \in 1..Len(output_file[1]) : output_file[1][k].year = y)

(* C12: at every point of a rebuild the collected history holds at most    *)
(* one record per year, in strictly ascending order of year.               *)
C12_AscendingYears ==
    op = "rebuild" =>
        \A i, j \in 1..Len(data_clean) :
            i < j => data_clean[i].year < data_clean[j].year

(* Two years are collected around a year that was skipped, the loop not    *)
(* yet over.                                                               *)
C12_Witness ==
    /\ op = "rebuild"
    /\ RecordYears(data_clean) = <<ScanFrom, ScanFrom + 2>>
    /\ source[ScanFrom + 1] = "descripcion"


-----------------------------------------------------------------------------
(* Properties of the two leap-day removals *)

LeapPathsDone == op = "leap_paths" /\ pc = "done"

Payload == answer.data[1]

PayloadDates == [k \in 1..Len(Payload) |-> MonthDay(Payload[k])]

(* The positions of the payload that hold the entry of February 29. *)
LeapDayPositions == {k \in 1..Len(Payload) : PayloadDates[k] = <<2, 29>>}

InOrder == \A k \in 1..(Len(Payload) - 1) : DateBefore(PayloadDates[k], PayloadDates[k + 1])

(* A day earlier than March 1 that the payload of the leap year lacks. *)
OmitsDayBeforeMarch ==
    \E md \in {<<1, d>> : d \in 1..31} \cup {<<2, d>> : d \in 1..29} :
        \A k \in 1..Len(Payload) : PayloadDates[k] # md

IsLeapPayload == \E k \in 1..Len(Payload) : Payload[k]["fecha"].s = FormatDate(2020, 1, 1)

SamePaths ==
    /\ byDate.kind = "record"
    /\ \A q \in Temperatures : byPosition[q] = byDate[q]

(* C18: for a complete, chronologically ordered 366-entry leap-year        *)
(* payload, dropping raw position 59 and dropping the entry dated February *)
(* 29 give the same 365-value series; for a leap-year payload that omits a *)
(* day before March 1 or is out of order the two results differ.           *)
C18_AsStated ==
    (LeapPathsDone /\ IsLeapPayload) =>
        /\ (Len(Payload) = 366 /\ InOrder) =>
               (SamePaths /\ \A q \in Temperatures : Len(byDate[q]) = DaysInYear)
        /\ (OmitsDayBeforeMarch \/ ~InOrder) => ~SamePaths

(* C18, amended: the two removals give the same 365-value series when the  *)
(* 366-entry payload holds the February 29 entry at raw position 59, and   *)
(* also when the payload lacks only the February 29 entry (neither removes *)
(* anything) or is out of order elsewhere than at position 59.  They       *)
(* differ when a day other than February 29 is missing (the payload then   *)
(* has fewer than 366 entries and nothing is popped, so the February 29    *)
(* value stays) and when another entry stands at raw position 59.          *)
C18_PathsAgree ==
    (LeapPathsDone /\ IsLeapPayload) =>
        /\ (Len(Payload) = 366 /\ LeapDayPositions = {60}) =>
               (SamePaths /\ \A q \in Temperatures : Len(byDate[q]) = DaysInYear)
        /\ (Len(Payload) # 366 /\ LeapDayPositions = {}) => SamePaths
        /\ (Len(Payload) # 366 /\ LeapDayPositions # {}) =>
               (/\ ~SamePaths
                /\ \A q \in Temperatures : Len(byPosition[q]) = Len(byDate[q]) + 1)
        /\ (Len(Payload) = 366 /\ LeapDayPositions # {} /\ LeapDayPositions # {60}) =>
               (/\ ~SamePaths
                /\ \E k \in 1..DaysInYear : byPosition.tmax[k] = Some(Reading("tmax", 2, 29)))

(* The complete leap year in calendar order went through both removals.   *)
C18_Witness ==
    /\ LeapPathsDone
    /\ IsLeapPayload
    /\ Len(Payload) = 366
    /\ InOrder
    /\ SamePaths
    /\ byDate.tmax[60] = Some(Reading("tmax", 3, 1))
    /\ Len(byPosition.tmax) = DaysInYear

-----------------------------------------------------------------------------
(* Properties of the current-year loop *)

CurrentYearDone == op = "current_year" /\ pc = "done"

(* C19: when the payload of the current year has 366 entries, the loop     *)
(* skips only the February 29 entry and appends one value per quantity for *)
(* each of the other 365 entries, so the three series have length 365.     *)
C19_LeapCurrentYear ==
    (/\ CurrentYearDone
     /\ current_record.kind = "record"
     /\ Len(answer.data[1]) = 366)
    => LET others == SelectSeq(answer.data[1], LAMBDA item : MonthDay(item) # <<2, 29>>)
       IN  \A q \in Temperatures :
              /\ Len(current_record[q]) = DaysInYear
              /\ current_record[q] = [k \in 1..Len(others) |-> ValueOrNone(others[k], q)]

-----------------------------------------------------------------------------
(* Properties of update_setup *)

(* The input dict of a call is afterwards what it was before the call. *)
InputKept(c) == heap[c.arg] = c.before

(* The returned dict is another object and differs from the input only at  *)
(* the key.                                                                *)
CopyDiffersAtKey(c) ==
    /\ c.ret # c.arg
    /\ DOMAIN heap[c.ret] = DOMAIN c.before \cup {c.id}
    /\ heap[c.ret][c.id] = c.value
    /\ \A k \in DOMAIN c.before \ {c.id} : heap[c.ret][k] = c.before[k]

(* The file is written exactly when the new value differs from the value   *)
(* the input had under the key, an absent key counting as None.            *)
WritesOnChange(c) == c.wrote <=> (c.value # DictGet(c.before, c.id))

(* C20: update_setup never mutates its input dict, returns a copy that     *)
(* differs from the input only at the given key, writes the file exactly   *)
(* when the new value differs from the value previously under that key,    *)
(* and two calls with the same key and value write at most once.           *)
C20_AsStated ==
    op = "update_setup" =>
        /\ \A n \in 1..Len(calls) :
               InputKept(calls[n]) /\ CopyDiffersAtKey(calls[n]) /\ WritesOnChange(calls[n])
        /\ \A m, n \in 1..Len(calls) :
               (m < n /\ calls[m].id = calls[n].id /\ calls[m].value = calls[n].value)
               => ~(calls[m].wrote /\ calls[n].wrote)

(* C20, amended: update_setup never mutates its input dict, returns a copy *)
(* that differs from the input only at the given key and writes the file   *)
(* exactly when the new value differs from the value the input dict has    *)
(* under that key, the written content being the returned dict; a second   *)
(* call with the same key and value writes nothing when it is given the    *)
(* dict the first call returned, and writes again, as the first did, when  *)
(* it is given the first call's input.                                     *)
C20_WritesOnChange ==
    op = "update_setup" =>
        /\ \A n \in 1..Len(calls) :
               /\ InputKept(calls[n])
               /\ CopyDiffersAtKey(calls[n])
               /\ WritesOnChange(calls[n])
        /\ (Len(calls) > 0 /\ calls[Len(calls)].wrote) =>
               setup_file = Some(heap[calls[Len(calls)].ret])
        /\ \A n \in 2..Len(calls) :
               (calls[n - 1].id = calls[n].id /\ calls[n - 1].value = calls[n].value) =>
                   /\ calls[n].arg = calls[n - 1].ret => ~calls[n].wrote
                   /\ calls[n].arg = calls[n - 1].arg => (calls[n].wrote <=> calls[n - 1].wrote)

(* The same key and value twice, the second time on the returned dict: the *)
(* first call wrote, the second did not.                                   *)
C20_Witness ==
    /\ op = "update_setup"
    /\ Len(calls) = 2
    /\ calls[1].id = calls[2].id
    /\ calls[1].value = calls[2].value
    /\ calls[2].arg = calls[1].ret
    /\ calls[1].wrote
    /\ ~calls[2].wrote
    /\ calls[1].id \notin DOMAIN calls[1].before

=============================================================================
